---- MODULE Spec2Model ----
(***************************************************************************)
(* A model of web_app.py, the Streamlit front-end of the ZooMS species     *)
(* identifier.  Every browser session runs main() top to bottom on each    *)
(* interaction; sessions run in their own threads and share the            *)
(* st.cache_data cache of load_theoretical_data and the file system.       *)
(* Masses and tolerances are integers in one fixed mass unit.              *)
(***************************************************************************)
EXTENDS Integers, Sequences, FiniteSets, TLC

VARIABLES
    fs,         \* the database folder on disk: [exists, files]
    cache,      \* st.cache_data entries of load_theoretical_data, by <<path, window>>
    locks,      \* keys whose value is being computed (the cache's compute lock)
    nComputed,  \* per key, how many computations stored a value (capped)
    pc,         \* per session, the position of its script run
    config,     \* per session, what get_sidebar_config returned
    upload,     \* per session, the UploadedFile of st.file_uploader
    local,      \* per session, the locals and the page output of the current run
    scenario    \* who uses the page and what they enter: [sessions, tolerances, contents]

vars == <<fs, cache, locks, nComputed, pc, config, upload, local, scenario>>

----------------------------------------------------------------------------
(* Bounds of the model *)

NumSmallDb == 2
NumLargeDb == 22
MaxCount == 2

Sessions == {"s1", "s2"}
DbPath == "filtered_peptides"
Windows == {<<1, 7>>, <<8, 9>>, <<7, 1>>}
Tolerances == {-1, 1}

(* Program constant *)
TopN == 20

Min(a, b) == IF a <= b THEN a ELSE b

----------------------------------------------------------------------------
(* The database folder *)

RefFile(i) == [species |-> i, masses |-> {1 + (i % 7), 8}]

Missing == [exists |-> FALSE, files |-> <<>>]
Dir(n) == [exists |-> TRUE, files |-> [i \in 1..n |-> RefFile(i)]]
DirStates == {Missing, Dir(0), Dir(NumSmallDb), Dir(NumLargeDb)}

(* The uploaded files: a header row, then rows of (mass, intensity) *)
Hdr == [numeric |-> FALSE, mass |-> 0, intensity |-> 0]
Peak(m, i) == [numeric |-> TRUE, mass |-> m, intensity |-> i]
Content(c) ==
    IF c = "header_only" THEN <<Hdr>>
    ELSE <<Hdr, Peak(2, 10), Peak(3, 40), Peak(5, 20), Peak(11, 30)>>
FileContents == {"header_only", "peaks"}

NoFile == [present |-> FALSE, content |-> "header_only", pos |-> 0]
NewFile(c) == [present |-> TRUE, content |-> c, pos |-> 0]

(* Optional[List]: None or a list *)
None == [isNone |-> TRUE, list |-> <<>>]
Some(l) == [isNone |-> FALSE, list |-> l]

----------------------------------------------------------------------------
(* casi.scripts.compare_score: the matching core the page calls *)

InWindow(m, m_range) == m_range[1] <= m /\ m <= m_range[2]

(* One entry per reference file, its masses restricted to the window; a     *)
(* window with min > max is a configuration error.                          *)
compare_score_load_theoretical_data(dir, m_range) ==
    IF m_range[1] > m_range[2]
    THEN [raised |-> TRUE, value |-> None]
    ELSE [raised |-> FALSE,
          value |-> Some([i \in 1..Len(dir.files) |->
                           [species |-> dir.files[i].species,
                            masses |-> {m \in dir.files[i].masses : InWindow(m, m_range)}]])]

(* Reads the stream from its current position to its end: the numeric rows, *)
(* then those inside the window.  No numeric row at all is a failure.       *)
compare_score_read_exp_pmf(file, m_range) ==
    LET rows == Content(file.content)
        rest == SubSeq(rows, file.pos + 1, Len(rows))
        parsed == SelectSeq(rest, LAMBDA r : r.numeric)
        table == SelectSeq(parsed, LAMBDA r : InWindow(r.mass, m_range))
    IN  [raised |-> parsed = <<>>,
         table |-> IF parsed = <<>> THEN <<>> ELSE table,
         parsed |-> Len(parsed),
         pos |-> Len(rows)]

Abs(x) == IF x < 0 THEN -x ELSE x

MatchCount(masses, act_peaks_df, threshold) ==
    Len(SelectSeq(act_peaks_df,
                  LAMBDA p : \E t \in masses : Abs(p.mass - t) <= threshold))

RECURSIVE SortDesc(_, _)
(* Stable sort, descending by match count: the rows of count c in their     *)
(* original order, for c from the highest count down to 0.                  *)
SortDesc(rows, c) ==
    IF c < 0 THEN <<>>
    ELSE SelectSeq(rows, LAMBDA r : r.match = c) \o SortDesc(rows, c - 1)

(* One row per species; a tolerance that is not positive is a               *)
(* configuration error.                                                     *)
compare_score_process_all_species(theor_peaks_list, act_peaks_df, threshold, total_peaks) ==
    IF threshold <= 0
    THEN [raised |-> TRUE, results |-> <<>>]
    ELSE LET rows == [i \in 1..Len(theor_peaks_list) |->
                        [species |-> theor_peaks_list[i].species,
                         match |-> MatchCount(theor_peaks_list[i].masses,
                                              act_peaks_df, threshold),
                         total |-> total_peaks]]
         IN  [raised |-> FALSE, results |-> SortDesc(rows, Len(act_peaks_df))]

----------------------------------------------------------------------------
(* web_app.py: the functions main calls *)

(* get_sidebar_config: the three widgets' values, returned as entered *)
get_sidebar_config(min_mass, max_mass, threshold) ==
    [db_path |-> DbPath, mass_range |-> <<min_mass, max_mass>>, threshold |-> threshold]

(* The undecorated body of load_theoretical_data: lines 93-95 *)
load_theoretical_data(folder, m_range) ==
    IF ~folder.exists
    THEN [raised |-> FALSE, value |-> None]
    ELSE compare_score_load_theoretical_data(folder, m_range)

(* st.cache_data's key: the function's arguments *)
CacheKey(folder_path, m_range) == <<folder_path, m_range>>

seek(file, offset) == [file EXCEPT !.pos = offset]

(* Variant: a reader failure is swallowed and an empty table returned *)
read_experimental_pmf_swallow(uploaded_file, mass_range) ==
    LET r == compare_score_read_exp_pmf(seek(uploaded_file, 0), mass_range)
    IN  [raised |-> FALSE,
         act_peaks_df |-> r.table,
         total_peaks |-> Len(r.table),
         pos |-> r.pos]

(* Variant: the count is taken before the mass window is applied *)
read_experimental_pmf_count_parsed(uploaded_file, mass_range) ==
    LET r == compare_score_read_exp_pmf(seek(uploaded_file, 0), mass_range)
    IN  [raised |-> r.raised,
         act_peaks_df |-> r.table,
         total_peaks |-> r.parsed,
         pos |-> r.pos]

(* Variant: the file is read from wherever the last run left it *)
read_experimental_pmf_no_seek(uploaded_file, mass_range) ==
    LET r == compare_score_read_exp_pmf(uploaded_file, mass_range)
    IN  [raised |-> r.raised,
         act_peaks_df |-> r.table,
         total_peaks |-> Len(r.table),
         pos |-> r.pos]

read_experimental_pmf(uploaded_file, mass_range) ==
    LET r == compare_score_read_exp_pmf(seek(uploaded_file, 0), mass_range)
    IN  [raised |-> r.raised,
         act_peaks_df |-> r.table,
         total_peaks |-> Len(r.table),
         pos |-> r.pos]

(* Variant: no comparison is made when no peak is in range *)
run_species_comparison_skip_empty(theor_peaks_list, act_peaks_df, threshold, total_peaks) ==
    IF total_peaks = 0
    THEN [raised |-> FALSE, results |-> <<>>]
    ELSE compare_score_process_all_species(theor_peaks_list, act_peaks_df,
                                           threshold, total_peaks)

run_species_comparison(theor_peaks_list, act_peaks_df, threshold, total_peaks) ==
    compare_score_process_all_species(theor_peaks_list, act_peaks_df,
                                      threshold, total_peaks)

head(df, n) == SubSeq(df, 1, Min(n, Len(df)))

to_csv(df) ==
    <<<<"species", "match", "total">>>> \o
    [i \in 1..Len(df) |-> <<df[i].species, df[i].match, df[i].total>>]

(* Variant: the download is made from the top-20 view *)
display_results_csv_of_top(results_df) ==
    [top_20 |-> head(results_df, TopN), csv |-> to_csv(head(results_df, TopN))]

display_results(results_df) ==
    [top_20 |-> head(results_df, TopN), csv |-> to_csv(results_df)]

(* Variant: only None counts as no database *)
IsNoneOnly(theor_peaks_list) == theor_peaks_list.isNone

(* Python's truth value of theor_peaks_list: None and [] are both false *)
Falsy(theor_peaks_list) == theor_peaks_list.isNone \/ theor_peaks_list.list = <<>>

(* The locals and the page output of a run that has not done anything yet *)
Fresh ==
    [steps |-> <<>>, msgs |-> <<>>, exc |-> "none",
     startPos |-> 0, dirFound |-> FALSE, loaded |-> FALSE, theor |-> None,
     dirAtLoad |-> Missing,
     act_peaks_df |-> <<>>, total_peaks |-> -1, info |-> -1,
     engTable |-> <<>>, engTotal |-> -1,
     results_df |-> <<>>, top_20 |-> <<>>, csv |-> <<>>]

(* Variant: the except branch also renders the (empty) result table *)
try_block_display_on_error(l, theor_peaks_list, uploaded_file, mass_range, threshold) ==
    LET rd == read_experimental_pmf(uploaded_file, mass_range)
        cmp == run_species_comparison(theor_peaks_list, rd.act_peaks_df,
                                      threshold, rd.total_peaks)
        shown == display_results(cmp.results)
    IN  IF rd.raised
        THEN [l EXCEPT !.steps = @ \o <<"read">>,
                       !.msgs = @ \o <<"error_exc">>,
                       !.exc = "reader"]
        ELSE [l EXCEPT !.steps = @ \o <<"read", "engine", "display">>,
                       !.msgs = @ \o (IF cmp.raised THEN <<"info", "error_exc">>
                                                     ELSE <<"info">>),
                       !.exc = IF cmp.raised THEN "engine" ELSE "none",
                       !.act_peaks_df = rd.act_peaks_df,
                       !.total_peaks = rd.total_peaks,
                       !.info = rd.total_peaks,
                       !.engTable = rd.act_peaks_df,
                       !.engTotal = rd.total_peaks,
                       !.results_df = cmp.results,
                       !.top_20 = shown.top_20,
                       !.csv = shown.csv]

(* main's try block: read, st.info, compare, display; any exception is      *)
(* caught and shown with st.error and st.exception.                         *)
try_block(l, theor_peaks_list, uploaded_file, mass_range, threshold) ==
    LET rd == read_experimental_pmf(uploaded_file, mass_range)
        cmp == run_species_comparison(theor_peaks_list, rd.act_peaks_df,
                                      threshold, rd.total_peaks)
        shown == display_results(cmp.results)
    IN  IF rd.raised
        THEN [l EXCEPT !.steps = @ \o <<"read">>,
                       !.msgs = @ \o <<"error_exc">>,
                       !.exc = "reader"]
        ELSE IF cmp.raised
        THEN [l EXCEPT !.steps = @ \o <<"read", "engine">>,
                       !.msgs = @ \o <<"info", "error_exc">>,
                       !.exc = "engine",
                       !.act_peaks_df = rd.act_peaks_df,
                       !.total_peaks = rd.total_peaks,
                       !.info = rd.total_peaks,
                       !.engTable = rd.act_peaks_df,
                       !.engTotal = rd.total_peaks]
        ELSE [l EXCEPT !.steps = @ \o <<"read", "engine", "display">>,
                       !.msgs = @ \o <<"info">>,
                       !.act_peaks_df = rd.act_peaks_df,
                       !.total_peaks = rd.total_peaks,
                       !.info = rd.total_peaks,
                       !.engTable = rd.act_peaks_df,
                       !.engTotal = rd.total_peaks,
                       !.results_df = cmp.results,
                       !.top_20 = shown.top_20,
                       !.csv = shown.csv]

----------------------------------------------------------------------------
(* The state machine *)

Keys == {CacheKey(DbPath, w) : w \in Windows}
KeyOf(s) == CacheKey(config[s].db_path, config[s].mass_range)

(* One user who tries every setting and file; two users at once who only    *)
(* load the database.                                                       *)
OneUser == [sessions |-> {"s1"}, tolerances |-> Tolerances, contents |-> FileContents]
TwoUsers == [sessions |-> Sessions, tolerances |-> {1}, contents |-> {}]

Start ==
    /\ fs \in DirStates
    /\ cache = [k \in Keys |-> [present |-> FALSE, value |-> None]]
    /\ locks = {}
    /\ nComputed = [k \in Keys |-> 0]
    /\ pc = [s \in Sessions |-> "idle"]
    /\ config = [s \in Sessions |-> get_sidebar_config(1, 7, 1)]
    /\ upload = [s \in Sessions |-> NoFile]
    /\ local = [s \in Sessions |-> Fresh]

Init == Start /\ scenario = OneUser
InitConc == Start /\ scenario = TwoUsers

(* The folder is created, removed, or its reference files change *)
FsChange ==
    /\ \E d \in DirStates \ {fs} : fs' = d
    /\ UNCHANGED <<cache, locks, nComputed, pc, config, upload, local, scenario>>

(* What the file_uploader widget holds on the next run: the same file       *)
(* object, no file, or a newly uploaded one.                                *)
Uploads(s) == {upload[s], NoFile} \cup {NewFile(c) : c \in scenario.contents}

(* A user interaction starts a run of main: the widgets are read and the    *)
(* folder is checked.                                                       *)
MainStart(s) ==
    /\ pc[s] \in {"idle", "done"}
    /\ \E w \in Windows, t \in scenario.tolerances, up \in Uploads(s) :
        /\ config' = [config EXCEPT ![s] = get_sidebar_config(w[1], w[2], t)]
        /\ upload' = [upload EXCEPT ![s] = up]
        /\ IF ~fs.exists
           THEN /\ local' = [local EXCEPT ![s] =
                               [Fresh EXCEPT !.steps = <<"exists">>,
                                             !.msgs = <<"warning">>,
                                             !.startPos = up.pos]]
                /\ pc' = [pc EXCEPT ![s] = "done"]
           ELSE /\ local' = [local EXCEPT ![s] =
                               [Fresh EXCEPT !.steps = <<"exists">>,
                                             !.dirFound = TRUE,
                                             !.startPos = up.pos]]
                /\ pc' = [pc EXCEPT ![s] = "load"]
    /\ UNCHANGED <<fs, cache, locks, nComputed, scenario>>

(* The value the cached function hands to main *)
Served(l, value, folder) ==
    [l EXCEPT !.steps = @ \o <<"load">>,
              !.loaded = TRUE,
              !.theor = value,
              !.dirAtLoad = folder]

(* main calls the cached load_theoretical_data: a hit returns the entry *)
LoadLookup(s) ==
    /\ pc[s] = "load"
    /\ IF cache[KeyOf(s)].present
       THEN /\ local' = [local EXCEPT ![s] =
                           Served(@, cache[KeyOf(s)].value, fs)]
            /\ pc' = [pc EXCEPT ![s] = "loaded"]
       ELSE /\ pc' = [pc EXCEPT ![s] = "miss"]
            /\ UNCHANGED local
    /\ UNCHANGED <<fs, cache, locks, nComputed, config, upload, scenario>>

(* Variant: a miss goes straight to the computation, with no lock and no    *)
(* second look at the cache.                                                *)
LoadNoLock(s) ==
    /\ pc[s] = "miss"
    /\ pc' = [pc EXCEPT ![s] = "compute"]
    /\ UNCHANGED <<fs, cache, locks, nComputed, config, upload, local, scenario>>

(* On a miss the key's compute lock is taken and the cache is read again *)
LoadLock(s) ==
    /\ pc[s] = "miss"
    /\ KeyOf(s) \notin locks
    /\ IF cache[KeyOf(s)].present
       THEN /\ local' = [local EXCEPT ![s] =
                           Served(@, cache[KeyOf(s)].value, fs)]
            /\ pc' = [pc EXCEPT ![s] = "loaded"]
            /\ UNCHANGED locks
       ELSE /\ locks' = locks \cup {KeyOf(s)}
            /\ pc' = [pc EXCEPT ![s] = "compute"]
            /\ UNCHANGED local
    /\ UNCHANGED <<fs, cache, nComputed, config, upload, scenario>>

(* Under the lock the function body runs; its value is stored and returned. *)
(* An exception is not stored and leaves main.                              *)
LoadCompute(s) ==
    /\ pc[s] = "compute"
    /\ LET r == load_theoretical_data(fs, config[s].mass_range)
       IN  IF r.raised
           THEN /\ local' = [local EXCEPT ![s] =
                               [@ EXCEPT !.steps = @ \o <<"load">>,
                                         !.msgs = @ \o <<"uncaught">>,
                                         !.exc = "loader"]]
                /\ pc' = [pc EXCEPT ![s] = "done"]
                /\ UNCHANGED <<cache, nComputed>>
           ELSE /\ cache' = [cache EXCEPT ![KeyOf(s)] =
                               [present |-> TRUE, value |-> r.value]]
                /\ nComputed' = [nComputed EXCEPT ![KeyOf(s)] = Min(@ + 1, MaxCount)]
                /\ local' = [local EXCEPT ![s] = Served(@, r.value, fs)]
                /\ pc' = [pc EXCEPT ![s] = "loaded"]
    /\ locks' = locks \ {KeyOf(s)}
    /\ UNCHANGED <<fs, config, upload, scenario>>

(* The rest of main: no database, no file, or the analysis *)
MainFinish(s) ==
    /\ pc[s] = "loaded"
    /\ IF Falsy(local[s].theor)
       THEN /\ local' = [local EXCEPT ![s].msgs = @ \o <<"error_nodb">>]
            /\ UNCHANGED upload
       ELSE IF ~upload[s].present
       THEN UNCHANGED <<local, upload>>
       ELSE /\ local' = [local EXCEPT ![s] =
                           try_block(@, local[s].theor.list, upload[s],
                                     config[s].mass_range, config[s].threshold)]
            /\ upload' = [upload EXCEPT ![s].pos =
                            read_experimental_pmf(upload[s], config[s].mass_range).pos]
    /\ pc' = [pc EXCEPT ![s] = "done"]
    /\ UNCHANGED <<fs, cache, locks, nComputed, config, scenario>>

Next ==
    \/ FsChange
    \/ \E s \in scenario.sessions : MainStart(s)
    \/ \E s \in scenario.sessions : LoadLookup(s)
    \/ \E s \in scenario.sessions : LoadLock(s)
    \/ \E s \in scenario.sessions : LoadCompute(s)
    \/ \E s \in scenario.sessions : MainFinish(s)

Spec == Init /\ [][Next]_vars
SpecConc == InitConc /\ [][Next]_vars

----------------------------------------------------------------------------
(* Properties *)

Has(s, step) == \E i \in DOMAIN local[s].steps : local[s].steps[i] = step
Started(s) == pc[s] # "idle"
Finished(s) == pc[s] = "done"

(* What the uploaded file holds, whatever the position of the file object *)
ParsedRows(c) == SelectSeq(Content(c), LAMBDA r : r.numeric)
RowsInRange(c, m_range) == SelectSeq(ParsedRows(c), LAMBDA r : InWindow(r.mass, m_range))

InvalidConfig(c) == c.mass_range[1] > c.mass_range[2] \/ c.threshold <= 0

IsPrefix(a, b) == Len(a) <= Len(b) /\ \A i \in 1..Len(a) : a[i] = b[i]

(* C1: a run that finds the folder missing only warns and ends, and          *)
(* load_theoretical_data called while the folder does not exist returns      *)
(* None.                                                                     *)
C1_MissingDirIsNoData ==
    \A s \in Sessions :
        /\ (Started(s) /\ ~local[s].dirFound) =>
              /\ Finished(s)
              /\ local[s].steps = <<"exists">>
              /\ local[s].msgs = <<"warning">>
              /\ local[s].exc = "none"
        /\ (local[s].loaded /\ ~local[s].dirAtLoad.exists) => local[s].theor.isNone

(* C2: a run whose loader returned an empty list ends with the "no           *)
(* database" error; the reader, the engine and the display are not invoked.  *)
C2_EmptyListIsNoDatabase ==
    \A s \in Sessions :
        (Finished(s) /\ local[s].loaded /\ ~local[s].theor.isNone
                     /\ local[s].theor.list = <<>>) =>
            /\ local[s].steps = <<"exists", "load">>
            /\ local[s].msgs = <<"error_nodb">>
            /\ local[s].results_df = <<>>
            /\ local[s].top_20 = <<>>
            /\ local[s].csv = <<>>

C2_Witness ==
    \E s \in Sessions :
        /\ Finished(s) /\ local[s].loaded /\ ~local[s].theor.isNone
        /\ local[s].theor.list = <<>>
        /\ upload[s].present
        /\ local[s].msgs = <<"error_nodb">>

(* C3: with min > max or a tolerance that is not positive, neither the       *)
(* loader nor the reader nor the engine is invoked.                          *)
C3_ConfigCheckedBeforeProcessing ==
    \A s \in Sessions :
        (Started(s) /\ InvalidConfig(config[s])) =>
            ~Has(s, "load") /\ ~Has(s, "read") /\ ~Has(s, "engine")

(* C4: a file with no parseable row ends the analysis with an error and no   *)
(* peak count or table; a file whose parseable rows all lie outside the      *)
(* window is read without error and reports 0 peaks in range.                *)
C4_UnparsableIsNotZeroInRange ==
    \A s \in Sessions :
        (Finished(s) /\ Has(s, "read")) =>
            /\ ParsedRows(upload[s].content) = <<>> =>
                  /\ local[s].exc = "reader"
                  /\ local[s].msgs = <<"error_exc">>
                  /\ local[s].info = -1
                  /\ ~Has(s, "engine") /\ ~Has(s, "display")
                  /\ local[s].top_20 = <<>> /\ local[s].csv = <<>>
            /\ (ParsedRows(upload[s].content) # <<>>
                  /\ RowsInRange(upload[s].content, config[s].mass_range) = <<>>) =>
                  /\ local[s].exc # "reader"
                  /\ local[s].info = 0
                  /\ local[s].msgs[1] = "info"

C4_Witness ==
    \E s \in Sessions :
        /\ Finished(s) /\ Has(s, "read")
        /\ ParsedRows(upload[s].content) = <<>>
        /\ local[s].exc = "reader"

C6_CountIsTableLength ==
    \A s \in Sessions :
        (Has(s, "read") /\ local[s].exc # "reader") =>
            /\ local[s].act_peaks_df = RowsInRange(upload[s].content, config[s].mass_range)
            /\ local[s].total_peaks = Len(local[s].act_peaks_df)
            /\ local[s].info = local[s].total_peaks
            /\ Has(s, "engine")
            /\ local[s].engTotal = local[s].total_peaks
            /\ local[s].engTable = local[s].act_peaks_df
            /\ local[s].engTotal = Len(local[s].engTable)

C6_Witness ==
    \E s \in Sessions :
        /\ Has(s, "engine")
        /\ local[s].total_peaks > 0
        /\ local[s].total_peaks < Len(ParsedRows(upload[s].content))

(* C7: the table shown is the first min(20, n) rows of the engine's table,   *)
(* in its order, and the CSV holds all n rows in that order.                 *)
C7_TopViewAndFullExport ==
    \A s \in Sessions :
        Has(s, "display") =>
            LET eng == compare_score_process_all_species(
                           local[s].theor.list, local[s].act_peaks_df,
                           config[s].threshold, local[s].total_peaks).results
                n == Len(eng)
            IN  /\ \A i \in 1..(n - 1) : eng[i].match >= eng[i + 1].match
                /\ Len(local[s].top_20) = Min(TopN, n)
                /\ \A i \in 1..Len(local[s].top_20) : local[s].top_20[i] = eng[i]
                /\ Len(local[s].csv) = n + 1
                /\ \A i \in 1..n :
                      local[s].csv[i + 1] = <<eng[i].species, eng[i].match, eng[i].total>>

C7_Witness ==
    \E s \in Sessions :
        /\ Has(s, "display")
        /\ Len(local[s].results_df) > TopN
        /\ Len(local[s].top_20) = TopN
        /\ local[s].results_df[1].match > local[s].results_df[Len(local[s].results_df)].match

(* C8: a run's table depends only on the key's cache entry, the file's       *)
(* content from its first byte, and the tolerance; the entry of a key is     *)
(* stored once.                                                              *)
C8_RerunSameTable ==
    \A s \in Sessions :
        LET r0 == compare_score_read_exp_pmf(NewFile(upload[s].content),
                                             config[s].mass_range)
            entry == cache[KeyOf(s)]
        IN  /\ nComputed[KeyOf(s)] <= 1
            /\ local[s].loaded => (entry.present /\ local[s].theor = entry.value)
            /\ Has(s, "read") =>
                  /\ (local[s].exc = "reader") = r0.raised
                  /\ ~r0.raised => local[s].act_peaks_df = r0.table
            /\ Has(s, "display") =>
                  local[s].results_df =
                      compare_score_process_all_species(
                          entry.value.list, r0.table,
                          config[s].threshold, Len(r0.table)).results

C8_Witness ==
    \E s \in Sessions :
        /\ Has(s, "display")
        /\ local[s].startPos > 0
        /\ local[s].total_peaks > 0

(* C9: the steps of a run are a prefix of exists, load, read, engine,        *)
(* display; the engine needs a non-empty loaded list; the display needs the  *)
(* engine's table; without a file, or when the reader or the engine raises,  *)
(* nothing is displayed and the exception is reported.                       *)
C9_StepOrder ==
    \A s \in Sessions :
        /\ IsPrefix(local[s].steps, <<"exists", "load", "read", "engine", "display">>)
        /\ Has(s, "load") => local[s].dirFound
        /\ Has(s, "read") => (local[s].loaded /\ ~Falsy(local[s].theor)
                                 /\ upload[s].present)
        /\ Has(s, "display") => local[s].exc = "none"
        /\ local[s].exc \in {"reader", "engine"} =>
              /\ local[s].msgs[Len(local[s].msgs)] = "error_exc"
              /\ local[s].top_20 = <<>> /\ local[s].csv = <<>>
        /\ (Finished(s) /\ ~upload[s].present) =>
              /\ ~Has(s, "read") /\ ~Has(s, "display")
              /\ local[s].top_20 = <<>> /\ local[s].csv = <<>>

C9_Witness ==
    \E s \in Sessions :
        /\ Finished(s)
        /\ local[s].steps = <<"exists", "load", "read", "engine">>
        /\ local[s].exc = "engine"

====
